---- MODULE Spec2Model ----
(***************************************************************************)
(* LifeCoach API: hierarchical tasks with comments and attachments         *)
(* (server/api/todos.py) and the water-intake log (server/api/water.py),   *)
(* over the relational schema of server/database/models.py.                *)
(*                                                                         *)
(* Every handler is one action.  The specifications share Init and differ  *)
(* in the handlers they run:                                               *)
(*   SpecCreate  the task tree alone, built from every request body        *)
(*   Spec        the task tree and the rows tasks own                      *)
(*   SpecAttach  comments, attachments of both kinds and the upload files  *)
(*   SpecEnv     SpecAttach with files also removed from outside           *)
(*   SpecUpdate  partial updates of task fields                            *)
(*   SpecWater   the water log and the clock                               *)
(*   SpecConc    handlers split into their resolve and commit steps        *)
(*                                                                         *)
(* An Optional[T] value is a set: None is {} and a present value v is {v}. *)
(***************************************************************************)
EXTENDS FiniteSets, Integers, Sequences, TLC

\* ---------------------------------------------------------------- bounds
MaxTodos == 3
MaxOwners == 2
MaxUpdTodos == 1
MaxOwned == 1
MaxRows == 1
MaxUpdates == 1
MaxWaterLogs == 3
MaxNow == 6
MaxRequests == 2

\* ------------------------------------------------------------- Optional[T]
None == {}
Some(v) == {v}
Get(o) == CHOOSE v \in o : TRUE

\* Python truthiness of an Optional[int] / Optional[str]
TruthyInt(o) == o # None /\ Get(o) # 0
TruthyStr(o) == o # None /\ Get(o) # ""

\* ------------------------------------------------------------------ enums
TaskStatus == {"To Do", "In Progress", "Done"}
AttachmentType == {"image", "pdf", "link"}

VARIABLES
    todos,              \* rows of table todos
    comments,           \* rows of table comments
    attachments,        \* rows of table attachments
    files,              \* files present under UPLOAD_DIR
    water_logs,         \* rows of table water_logs
    next_todo_id, next_comment_id, next_attachment_id, next_water_id,
    next_file,          \* the next fresh uuid4 file name
    now,                \* the current instant (UTC), in units of four hours
    resp,               \* the status code of the last response
    n_updates,          \* number of update requests handled so far
    n_requests,         \* number of interleaved requests begun so far
    inflight            \* requests that resolved their task and did not commit yet

db == <<todos, comments, attachments, files, next_todo_id, next_comment_id,
        next_attachment_id, next_file>>
water == <<water_logs, next_water_id, now>>
vars == <<todos, comments, attachments, files, water_logs, next_todo_id,
          next_comment_id, next_attachment_id, next_water_id, next_file, now,
          resp, n_updates, n_requests, inflight>>

Respond(code) == resp' = code

\* ---------------------------------------------------------------- storage
\* Whether the engine built in database/session.py rejects a row whose
\* foreign key names no row.
ForeignKeysEnforced == FALSE

TodoIds == {t.id : t \in todos}
TaskExists(todo_id) == todo_id \in TodoIds
TaskRow(todo_id) == CHOOSE t \in todos : t.id = todo_id

\* get_task_or_404: "ok" with the row, or the 404 of the HTTPException
get_task_or_404(todo_id) ==
    IF \E t \in todos : t.id = todo_id
        THEN [code |-> 200, task |-> Some(TaskRow(todo_id))]
        ELSE [code |-> 404, task |-> None]

get_comment_or_404(comment_id) ==
    IF \E c \in comments : c.id = comment_id
        THEN [code |-> 200, comment |-> Some(CHOOSE c \in comments : c.id = comment_id)]
        ELSE [code |-> 404, comment |-> None]

get_attachment_or_404(attachment_id) ==
    IF \E a \in attachments : a.id = attachment_id
        THEN [code |-> 200, attachment |-> Some(CHOOSE a \in attachments : a.id = attachment_id)]
        ELSE [code |-> 404, attachment |-> None]

\* Columns of todos declared nullable=False (id aside)
NotNullColumns == {"title", "status", "hidden"}
NotNullViolated(row) == \E f \in NotNullColumns : row[f] = None

\* A cascade that stops at the direct subtasks
CascadeTodos_direct(ids) ==
    ids \cup {t.id : t \in {u \in todos : u.parent_id # None /\ Get(u.parent_id) \in ids}}

\* relationship(..., cascade="all, delete-orphan") on subtasks: the ids that
\* deleting the tasks in ids removes, following subtasks recursively
RECURSIVE CascadeTodos(_)
CascadeTodos(ids) ==
    LET subtasks == {t.id : t \in {u \in todos : u.parent_id # None /\ Get(u.parent_id) \in ids}}
    IN  IF subtasks \subseteq ids THEN ids ELSE CascadeTodos(ids \cup subtasks)

\* ------------------------------------------------------- request payloads
TodoBodies ==
    { [title |-> Some("A"), description |-> Some("d"), status |-> Some("To Do"),
       due_date |-> Some(1), duration_minutes |-> Some(30), hidden |-> Some(FALSE)],
      [title |-> Some("A"), description |-> None, status |-> None,
       due_date |-> None, duration_minutes |-> None, hidden |-> Some(FALSE)] }

ParentIds == {None} \cup {Some(p) : p \in (0 - 1)..(MaxTodos + 1)}

\* TodoCreate: TodoBase plus parent_id
TodoCreate ==
    { [title |-> b.title, description |-> b.description, status |-> b.status,
       due_date |-> b.due_date, duration_minutes |-> b.duration_minutes,
       hidden |-> b.hidden, parent_id |-> p] : b \in TodoBodies, p \in ParentIds }

\* The requests that give every field of TodoBase a value
TodoCreateComplete == {todo \in TodoCreate : todo.description # None}

\* TodoUpdate: the fields a request sets explicitly, with their values
UpdFields == {"title", "description", "status", "due_date", "duration_minutes",
              "hidden", "completed_seconds"}
UpdValues(f) ==
    CASE f = "title" -> {None, Some("A"), Some("B")}
      [] f = "description" -> {None, Some("d")}
      [] f = "status" -> {None, Some("To Do"), Some("Done")}
      [] f = "due_date" -> {None, Some(1)}
      [] f = "duration_minutes" -> {None, Some(30)}
      [] f = "hidden" -> {None, Some(FALSE), Some(TRUE)}
      [] f = "completed_seconds" -> {None, Some(0), Some(60)}
RECURSIVE FieldMaps(_)
FieldMaps(S) ==
    IF S = {} THEN {[f \in {} |-> None]}
    ELSE LET f == CHOOSE g \in S : TRUE
         IN  {[g \in S |-> IF g = f THEN v ELSE r[g]] : v \in UpdValues(f), r \in FieldMaps(S \ {f})}
\* The requests that set no field, one field, or the two fields of the
\* request body documented in update_todo
TodoUpdate ==
    UNION {FieldMaps(S) : S \in {{}} \cup {{f} : f \in UpdFields}
                                    \cup {{"status", "completed_seconds"}}}

\* ------------------------------------------------------------ todos: tasks
\* INSERT of a mapped object omits a column whose attribute is None, so the
\* column's default, if it has one, is stored
WithDefault(value, default) == IF value = None THEN default ELSE value

\* TodoModel(**todo.model_dump()); db.add; db.commit
insert_todo(todo) ==
    LET db_todo == [id |-> next_todo_id, title |-> todo.title,
                    description |-> todo.description,
                    status |-> WithDefault(todo.status, Some("To Do")),
                    due_date |-> todo.due_date,
                    duration_minutes |-> todo.duration_minutes,
                    completed_seconds |-> Some(0),
                    hidden |-> WithDefault(todo.hidden, Some(FALSE)),
                    parent_id |-> todo.parent_id]
    IN  IF \/ NotNullViolated(db_todo)
           \/ ForeignKeysEnforced /\ todo.parent_id # None
                                  /\ ~TaskExists(Get(todo.parent_id))
            THEN /\ Respond(500)
                 /\ UNCHANGED db
            ELSE /\ todos' = todos \cup {db_todo}
                 /\ next_todo_id' = next_todo_id + 1
                 /\ Respond(201)
                 /\ UNCHANGED <<comments, attachments, files, next_comment_id,
                                next_attachment_id, next_file>>

create_todo(todo) ==
    /\ IF TruthyInt(todo.parent_id) /\ get_task_or_404(Get(todo.parent_id)).code = 404
           THEN /\ Respond(404)
                /\ UNCHANGED db
           ELSE insert_todo(todo)
    /\ UNCHANGED <<water, n_updates, n_requests, inflight>>

read_todo(todo_id) == get_task_or_404(todo_id)

\* A full replacement: fields the request leaves out fall back to their defaults
apply_update_replacing(db_todo, todo) ==
    [f \in DOMAIN db_todo |->
        IF f \in DOMAIN todo THEN todo[f]
        ELSE IF f \in {"id", "parent_id", "title"} THEN db_todo[f]
        ELSE IF f = "status" THEN Some("To Do")
        ELSE IF f = "hidden" THEN Some(FALSE)
        ELSE IF f = "completed_seconds" THEN Some(0)
        ELSE None]

\* for key, value in todo.model_dump(exclude_unset=True).items(): setattr(...)
apply_update(db_todo, todo) ==
    [f \in DOMAIN db_todo |-> IF f \in DOMAIN todo THEN todo[f] ELSE db_todo[f]]

update_todo(todo_id, todo) ==
    /\ n_updates' = n_updates + 1
    /\ IF get_task_or_404(todo_id).code = 404
           THEN /\ Respond(404)
                /\ UNCHANGED db
           ELSE LET db_todo == TaskRow(todo_id)
                    updated == apply_update(db_todo, todo)
                IN  IF NotNullViolated(updated)
                        THEN /\ Respond(500)
                             /\ UNCHANGED db
                        ELSE /\ todos' = (todos \ {db_todo}) \cup {updated}
                             /\ Respond(200)
                             /\ UNCHANGED <<comments, attachments, files, next_todo_id,
                                            next_comment_id, next_attachment_id, next_file>>
    /\ UNCHANGED <<water, n_requests, inflight>>

\* A cascade that also removes the files of the attachments it deletes
cascade_delete_with_files(todo_id) ==
    LET gone == CascadeTodos({todo_id})
    IN  /\ todos' = {t \in todos : t.id \notin gone}
        /\ comments' = {c \in comments : c.task_id \notin gone}
        /\ attachments' = {a \in attachments : a.task_id \notin gone}
        /\ files' = files \ UNION {a.file_path : a \in {b \in attachments : b.task_id \in gone}}
        /\ UNCHANGED <<next_todo_id, next_comment_id, next_attachment_id, next_file>>

\* db.delete(db_todo); db.commit(): the ORM cascade over subtasks, comments
\* and attachments; nothing is removed from UPLOAD_DIR
cascade_delete(todo_id) ==
    LET gone == CascadeTodos({todo_id})
    IN  /\ todos' = {t \in todos : t.id \notin gone}
        /\ comments' = {c \in comments : c.task_id \notin gone}
        /\ attachments' = {a \in attachments : a.task_id \notin gone}
        /\ UNCHANGED <<files, next_todo_id, next_comment_id, next_attachment_id, next_file>>

delete_todo(todo_id) ==
    /\ IF get_task_or_404(todo_id).code = 404
           THEN /\ Respond(404)
                /\ UNCHANGED db
           ELSE /\ cascade_delete(todo_id)
                /\ Respond(204)
    /\ UNCHANGED <<water, n_updates, n_requests, inflight>>

\* --------------------------------------------------------- todos: comments
CommentCreate == {[text |-> "note"]}

\* CommentModel(**comment.model_dump(), task_id=task.id); db.add; db.commit
insert_comment(task_id, comment) ==
    IF ForeignKeysEnforced /\ ~TaskExists(task_id)
        THEN /\ Respond(500)
             /\ UNCHANGED db
        ELSE /\ comments' = comments \cup
                    {[id |-> next_comment_id, text |-> comment.text, task_id |-> task_id]}
             /\ next_comment_id' = next_comment_id + 1
             /\ Respond(201)
             /\ UNCHANGED <<todos, attachments, files, next_todo_id,
                            next_attachment_id, next_file>>

create_comment_for_task(todo_id, comment) ==
    /\ IF get_task_or_404(todo_id).code = 404
           THEN /\ Respond(404)
                /\ UNCHANGED db
           ELSE insert_comment(Get(get_task_or_404(todo_id).task).id, comment)
    /\ UNCHANGED <<water, n_updates, n_requests, inflight>>

delete_comment(comment_id) ==
    /\ IF get_comment_or_404(comment_id).code = 404
           THEN /\ Respond(404)
                /\ UNCHANGED db
           ELSE /\ comments' = comments \ get_comment_or_404(comment_id).comment
                /\ Respond(200)
                /\ UNCHANGED <<todos, attachments, files, next_todo_id, next_comment_id,
                               next_attachment_id, next_file>>
    /\ UNCHANGED <<water, n_updates, n_requests, inflight>>

\* ------------------------------------------------------ todos: attachments
UPLOAD_DIR == "static/uploads"

\* An uploaded part: its declared content type, <<type, subtype>>, if any
UploadFile ==
    {[content_type |-> ct] :
        ct \in {None, Some(<<"image", "png">>), Some(<<"application", "pdf">>)}}

\* file.content_type.startswith("image")
StartsWithImage(content_type) == content_type[1] = "image"

\* AttachmentCreate: attachment_type, file_path, url
AttachmentCreate ==
    [attachment_type : AttachmentType,
     file_path : {None, Some(<<UPLOAD_DIR, 1>>)},
     url : {None, Some(""), Some("https://x")}]

\* AttachmentModel(task_id, file_path | url, attachment_type); db.add; db.commit
insert_attachment(task_id, attachment_type, file_path, url) ==
    IF ForeignKeysEnforced /\ ~TaskExists(task_id)
        THEN /\ Respond(500)
             /\ UNCHANGED <<todos, comments, attachments, next_todo_id,
                            next_comment_id, next_attachment_id>>
        ELSE /\ attachments' = attachments \cup
                    {[id |-> next_attachment_id, task_id |-> task_id,
                      attachment_type |-> attachment_type,
                      file_path |-> file_path, url |-> url]}
             /\ next_attachment_id' = next_attachment_id + 1
             /\ Respond(201)
             /\ UNCHANGED <<todos, comments, next_todo_id, next_comment_id>>

\* The body of upload_attachment_for_task after the task is resolved: the
\* file is written under a fresh name, then the row is inserted
store_upload(task_id, file) ==
    LET file_path == <<UPLOAD_DIR, next_file>>
    IN  /\ files' = files \cup {file_path}
        /\ next_file' = next_file + 1
        /\ IF file.content_type = None
               \* None has no startswith: AttributeError after the write
               THEN /\ Respond(500)
                    /\ UNCHANGED <<todos, comments, attachments, next_todo_id,
                                   next_comment_id, next_attachment_id>>
               ELSE insert_attachment(task_id,
                        IF StartsWithImage(Get(file.content_type)) THEN "image" ELSE "pdf",
                        Some(file_path), None)

upload_attachment_for_task(todo_id, file) ==
    /\ IF get_task_or_404(todo_id).code = 404
           THEN /\ Respond(404)
                /\ UNCHANGED db
           ELSE store_upload(Get(get_task_or_404(todo_id).task).id, file)
    /\ UNCHANGED <<water, n_updates, n_requests, inflight>>

\* os.remove without the os.path.exists test: a missing file is an error
delete_attachment_unchecked(attachment_id) ==
    /\ IF get_attachment_or_404(attachment_id).code = 404
           THEN /\ Respond(404)
                /\ UNCHANGED db
           ELSE LET db_attachment == Get(get_attachment_or_404(attachment_id).attachment)
                IN  IF db_attachment.file_path # None
                           /\ Get(db_attachment.file_path) \notin files
                        THEN /\ Respond(500)
                             /\ UNCHANGED db
                        ELSE /\ files' = files \ db_attachment.file_path
                             /\ attachments' = attachments \ {db_attachment}
                             /\ Respond(200)
                             /\ UNCHANGED <<todos, comments, next_todo_id, next_comment_id,
                                            next_attachment_id, next_file>>
    /\ UNCHANGED <<water, n_updates, n_requests, inflight>>

delete_attachment(attachment_id) ==
    /\ IF get_attachment_or_404(attachment_id).code = 404
           THEN /\ Respond(404)
                /\ UNCHANGED db
           ELSE LET db_attachment == Get(get_attachment_or_404(attachment_id).attachment)
                IN  /\ files' = IF /\ db_attachment.file_path # None
                                   /\ Get(db_attachment.file_path) \in files
                                    THEN files \ db_attachment.file_path
                                    ELSE files
                    /\ attachments' = attachments \ {db_attachment}
                    /\ Respond(200)
                    /\ UNCHANGED <<todos, comments, next_todo_id, next_comment_id,
                                   next_attachment_id, next_file>>
    /\ UNCHANGED <<water, n_updates, n_requests, inflight>>

\* A check of the type alone
InvalidLink_type_only(attachment) == attachment.attachment_type # "link"

\* The 400 check of create_link_attachment_for_task
InvalidLink(attachment) ==
    attachment.attachment_type # "link" \/ ~TruthyStr(attachment.url)

\* A handler that also stores the file_path of the request
create_link_attachment_with_file_path(todo_id, attachment) ==
    /\ IF InvalidLink(attachment)
           THEN /\ Respond(400)
                /\ UNCHANGED db
           ELSE IF get_task_or_404(todo_id).code = 404
               THEN /\ Respond(404)
                    /\ UNCHANGED db
               ELSE /\ insert_attachment(
                            Get(get_task_or_404(todo_id).task).id, "link",
                            attachment.file_path, attachment.url)
                    /\ UNCHANGED <<files, next_file>>
    /\ UNCHANGED <<water, n_updates, n_requests, inflight>>

create_link_attachment_for_task(todo_id, attachment) ==
    /\ IF InvalidLink(attachment)
           THEN /\ Respond(400)
                /\ UNCHANGED db
           ELSE IF get_task_or_404(todo_id).code = 404
               THEN /\ Respond(404)
                    /\ UNCHANGED db
               ELSE /\ insert_attachment(
                            Get(get_task_or_404(todo_id).task).id, "link",
                            None, attachment.url)
                    /\ UNCHANGED <<files, next_file>>
    /\ UNCHANGED <<water, n_updates, n_requests, inflight>>

\* A file under UPLOAD_DIR removed by something other than the API
ExternalRemoveFile(path) ==
    /\ path \in files
    /\ files' = files \ {path}
    /\ UNCHANGED <<todos, comments, attachments, next_todo_id, next_comment_id,
                   next_attachment_id, next_file, water, resp, n_updates, n_requests,
                   inflight>>

\* ------------------------------------------------------------------ water
\* Asia/Baku is UTC+4 all year; one day; both in units of four hours
BakuOffset == 1
DayLength == 6

Amounts == {0 - 5, 0, 300, 500}
WaterCreate == [amount_ml : Amounts]

\* datetime.now(baku_tz), as the wall-clock value a DateTime column keeps
baku_now == now + BakuOffset

add_water(data) ==
    /\ water_logs' = water_logs \cup
           {[id |-> next_water_id, amount_ml |-> data.amount_ml, timestamp |-> baku_now]}
    /\ next_water_id' = next_water_id + 1
    /\ Respond(201)
    /\ UNCHANGED <<db, now, n_updates, n_requests, inflight>>

RECURSIVE sum(_)
sum(logs) ==
    IF logs = {} THEN 0
    ELSE LET log == CHOOSE l \in logs : TRUE IN log.amount_ml + sum(logs \ {log})

\* A window that leaves out midnight itself
InDay_after_start(timestamp, start_of_day_baku, end_of_day_baku) ==
    timestamp > start_of_day_baku /\ timestamp < end_of_day_baku

\* WaterLog.timestamp >= start_of_day_baku, WaterLog.timestamp < end_of_day_baku
InDay(timestamp, start_of_day_baku, end_of_day_baku) ==
    timestamp >= start_of_day_baku /\ timestamp < end_of_day_baku

today_stats ==
    LET today_baku == baku_now \div DayLength
        start_of_day_baku == today_baku * DayLength
        end_of_day_baku == start_of_day_baku + DayLength
        logs == {l \in water_logs : InDay(l.timestamp, start_of_day_baku, end_of_day_baku)}
    IN  [today_total |-> sum(logs), entries |-> logs]

\* order_by(WaterLog.timestamp.desc()); rows of equal timestamp in some order
RECURSIVE OrderByTimestampDesc(_)
OrderByTimestampDesc(logs) ==
    IF logs = {} THEN <<>>
    ELSE LET first == CHOOSE l \in logs : \A m \in logs : l.timestamp >= m.timestamp
         IN  <<first>> \o OrderByTimestampDesc(logs \ {first})

history == OrderByTimestampDesc(water_logs)

remove_water(water_log_id) ==
    /\ IF ~\E l \in water_logs : l.id = water_log_id
           THEN /\ Respond(404)
                /\ UNCHANGED water_logs
           ELSE /\ water_logs' = {l \in water_logs : l.id # water_log_id}
                /\ Respond(204)
    /\ UNCHANGED <<db, next_water_id, now, n_updates, n_requests, inflight>>

\* Time passes between requests
Tick ==
    /\ now' = now + 1
    /\ UNCHANGED <<db, water_logs, next_water_id, resp, n_updates, n_requests, inflight>>

\* ------------------------------------------------- interleaved requests
\* A request whose handler resolves a task first is taken in two steps: the
\* get_task_or_404 of the handler, then its writes and commit.  The payload
\* does not depend on the state and is drawn at the second step.
Begin(op, todo_id) ==
    /\ n_requests' = n_requests + 1
    /\ IF get_task_or_404(todo_id).code = 404
           THEN /\ Respond(404)
                /\ UNCHANGED inflight
           ELSE /\ inflight' = inflight \cup
                       {[n |-> n_requests + 1, op |-> op,
                         task_id |-> Get(get_task_or_404(todo_id).task).id]}
                /\ UNCHANGED resp
    /\ UNCHANGED <<db, water, n_updates>>

Commit(r) ==
    /\ r \in inflight
    /\ inflight' = inflight \ {r}
    /\ UNCHANGED <<water, n_updates, n_requests>>

create_todo_resolve(todo_id) == Begin("create_todo", todo_id)

create_todo_commit(r) ==
    /\ r.op = "create_todo"
    /\ \E todo \in TodoCreateComplete : todo.parent_id = Some(r.task_id) /\ insert_todo(todo)
    /\ Commit(r)

delete_todo_resolve(todo_id) == Begin("delete_todo", todo_id)

delete_todo_commit(r) ==
    /\ r.op = "delete_todo"
    /\ cascade_delete(r.task_id)
    /\ Respond(204)
    /\ Commit(r)

create_comment_resolve(todo_id) == Begin("create_comment_for_task", todo_id)

create_comment_commit(r) ==
    /\ r.op = "create_comment_for_task"
    /\ \E comment \in CommentCreate : insert_comment(r.task_id, comment)
    /\ Commit(r)

upload_attachment_resolve(todo_id) == Begin("upload_attachment_for_task", todo_id)

upload_attachment_commit(r) ==
    /\ r.op = "upload_attachment_for_task"
    /\ \E file \in UploadFile : store_upload(r.task_id, file)
    /\ Commit(r)

\* the 400 check precedes get_task_or_404: only valid payloads resolve
create_link_resolve(todo_id) == Begin("create_link_attachment_for_task", todo_id)

create_link_commit(r) ==
    /\ r.op = "create_link_attachment_for_task"
    /\ \E attachment \in AttachmentCreate :
           /\ ~InvalidLink(attachment)
           /\ insert_attachment(r.task_id, "link", None, attachment.url)
    /\ UNCHANGED <<files, next_file>>
    /\ Commit(r)

Init ==
    /\ todos = {} /\ comments = {} /\ attachments = {} /\ files = {}
    /\ water_logs = {}
    /\ next_todo_id = 1 /\ next_comment_id = 1 /\ next_attachment_id = 1
    /\ next_water_id = 1 /\ next_file = 1
    /\ now = 0
    /\ resp = 0
    /\ n_updates = 0
    /\ n_requests = 0
    /\ inflight = {}

\* Guards that keep the number of rows, requests and clock ticks finite
OwnedRows == (next_comment_id - 1) + (next_attachment_id - 1)
MayCreateTodo(max) == next_todo_id <= max
MayOwn(max) == OwnedRows < max
MayUpload(max) == MayOwn(max) /\ next_file <= max
MayUpdate == n_updates < MaxUpdates
MayBegin == n_requests < MaxRequests

\* The task tree alone, built from every request body
NextCreate ==
    \/ \E todo \in TodoCreate : MayCreateTodo(MaxTodos) /\ create_todo(todo)
    \/ \E todo_id \in 1..MaxTodos : delete_todo(todo_id)

SpecCreate == Init /\ [][NextCreate]_vars

\* The task tree and the rows tasks own
Next ==
    \/ \E todo \in TodoCreateComplete : MayCreateTodo(MaxTodos) /\ create_todo(todo)
    \/ \E todo_id \in 1..MaxTodos : delete_todo(todo_id)
    \/ \E todo_id \in 1..MaxTodos, comment \in CommentCreate :
            MayOwn(MaxOwned) /\ create_comment_for_task(todo_id, comment)
    \/ \E todo_id \in 1..MaxTodos, file \in UploadFile :
            MayUpload(MaxOwned) /\ upload_attachment_for_task(todo_id, file)

Spec == Init /\ [][Next]_vars

\* The rows tasks own, attachments of both kinds, and the files of UPLOAD_DIR
NextAttach ==
    \/ \E todo \in TodoCreateComplete : MayCreateTodo(MaxOwners) /\ create_todo(todo)
    \/ \E todo_id \in 1..MaxOwners : delete_todo(todo_id)
    \/ \E todo_id \in 1..MaxOwners, comment \in CommentCreate :
            MayOwn(MaxRows) /\ create_comment_for_task(todo_id, comment)
    \/ \E comment_id \in 1..MaxRows : delete_comment(comment_id)
    \/ \E todo_id \in 1..MaxOwners, file \in UploadFile :
            MayUpload(MaxRows) /\ upload_attachment_for_task(todo_id, file)
    \/ \E attachment_id \in 1..MaxRows : delete_attachment(attachment_id)
    \/ \E todo_id \in 1..MaxOwners, attachment \in AttachmentCreate :
            MayOwn(MaxRows) /\ create_link_attachment_for_task(todo_id, attachment)

SpecAttach == Init /\ [][NextAttach]_vars

\* The same, with files of UPLOAD_DIR also removed from outside
NextEnv ==
    \/ NextAttach
    \/ \E path \in files : ExternalRemoveFile(path)

SpecEnv == Init /\ [][NextEnv]_vars

\* Tasks with what they own, and partial updates of their fields
NextUpdate ==
    \/ \E todo \in TodoCreateComplete : MayCreateTodo(MaxUpdTodos) /\ create_todo(todo)
    \/ \E todo_id \in 1..MaxUpdTodos, todo \in TodoUpdate :
            MayUpdate /\ update_todo(todo_id, todo)
    \/ \E todo_id \in 1..MaxUpdTodos, comment \in CommentCreate :
            MayOwn(MaxOwned) /\ create_comment_for_task(todo_id, comment)
    \/ \E todo_id \in 1..MaxUpdTodos, attachment \in AttachmentCreate :
            MayOwn(MaxOwned) /\ create_link_attachment_for_task(todo_id, attachment)

SpecUpdate == Init /\ [][NextUpdate]_vars

\* The water log, with time passing
NextWater ==
    \/ \E data \in WaterCreate : next_water_id <= MaxWaterLogs /\ add_water(data)
    \/ \E water_log_id \in 1..MaxWaterLogs : remove_water(water_log_id)
    \/ now < MaxNow /\ Tick

SpecWater == Init /\ [][NextWater]_vars

\* Requests interleaved between resolving their task and committing
NextConc ==
    \/ \E todo \in TodoCreateComplete :
            MayCreateTodo(MaxOwners) /\ ~TruthyInt(todo.parent_id) /\ create_todo(todo)
    \/ \E todo_id \in 1..MaxOwners : MayBegin /\ create_todo_resolve(todo_id)
    \/ \E r \in inflight : MayCreateTodo(MaxOwners) /\ create_todo_commit(r)
    \/ \E todo_id \in 1..MaxOwners : MayBegin /\ delete_todo_resolve(todo_id)
    \/ \E r \in inflight : delete_todo_commit(r)
    \/ \E todo_id \in 1..MaxOwners : MayBegin /\ create_comment_resolve(todo_id)
    \/ \E r \in inflight : MayOwn(MaxRows) /\ create_comment_commit(r)
    \/ \E todo_id \in 1..MaxOwners : MayBegin /\ upload_attachment_resolve(todo_id)
    \/ \E r \in inflight : MayUpload(MaxRows) /\ upload_attachment_commit(r)
    \/ \E todo_id \in 1..MaxOwners : MayBegin /\ create_link_resolve(todo_id)
    \/ \E r \in inflight : MayOwn(MaxRows) /\ create_link_commit(r)

SpecConc == Init /\ [][NextConc]_vars

\* ================================================================ properties
\* The chain of parent ids from a task upwards, the task's own id included
RECURSIVE Lineage(_)
Lineage(id) ==
    {id} \cup (IF \E t \in todos : t.id = id /\ t.parent_id # None
                   THEN Lineage(Get(TaskRow(id).parent_id))
                   ELSE {})

\* T and its descendants at any depth
Subtree(T) == {t.id : t \in {u \in todos : T \in Lineage(u.id)}}

\* C1: create_todo with a parent_id that names no existing task answers 404
\* and writes no row, whatever the value of parent_id, so that every stored
\* parent_id names a task created before its own
C1_UnknownParentRejected ==
    [][ /\ \A todo \in TodoCreate :
            (create_todo(todo) /\ todo.parent_id # None
                               /\ Get(todo.parent_id) \notin TodoIds)
                => (resp' = 404 /\ todos' = todos)
        /\ \A t \in todos' :
            t.parent_id # None => Get(t.parent_id) \in 1..(t.id - 1) ]_vars

\* C2: a successful delete_todo(T) removes T, its descendants at any depth
\* and every comment and attachment row they own; read_todo of each answers
\* 404; the rows outside the subtree are unchanged
C2_DeleteRemovesSubtree ==
    [][ \A T \in 1..MaxTodos :
            (delete_todo(T) /\ T \in TodoIds) =>
                LET gone == Subtree(T)
                IN  /\ resp' = 204
                    /\ \A id \in gone : read_todo(id)'.code = 404
                    /\ todos' = {t \in todos : t.id \notin gone}
                    /\ comments' = {c \in comments : c.task_id \notin gone}
                    /\ attachments' = {a \in attachments : a.task_id \notin gone} ]_vars

\* a delete_todo has answered 204, every task that was created is gone,
\* and so is the row of an upload, whose file is still stored
C2_Witness ==
    /\ resp = 204
    /\ next_todo_id > MaxTodos /\ todos = {}
    /\ next_attachment_id > 1 /\ attachments = {}
    /\ files # {}

\* C3: every stored attachment has exactly one of file_path and url
\* populated: file_path exactly for image and pdf, url exactly for link
C3_FilePathXorUrl ==
    \A a \in attachments :
        /\ (a.file_path # None) # TruthyStr(a.url)
        /\ (a.file_path # None) <=> (a.attachment_type \in {"image", "pdf"})
        /\ TruthyStr(a.url) <=> (a.attachment_type = "link")
        /\ a.file_path = None => a.url # None
        /\ a.file_path # None => a.url = None

\* an uploaded attachment is stored and its file is on disk
C3_Witness ==
    \E a \in attachments :
        a.attachment_type = "pdf" /\ a.file_path # None /\ Get(a.file_path) \in files

RECURSIVE AmountsUpTo(_, _)
AmountsUpTo(logs, n) ==
    IF n = 0 THEN 0
    ELSE (IF \E l \in logs : l.id = n
              THEN (CHOOSE l \in logs : l.id = n).amount_ml ELSE 0)
         + AmountsUpTo(logs, n - 1)

Range(seq) == {seq[i] : i \in DOMAIN seq}

\* C5: today_stats returns exactly the entries of history whose timestamp is
\* on the current calendar day in Asia/Baku, and today_total is the sum of
\* their amount_ml; 500 and 300 added on the same day give 800
C5_TodayStats ==
    LET today == {l \in Range(history) :
                     l.timestamp \div DayLength = baku_now \div DayLength}
    IN  /\ today_stats.entries = today
        /\ today_stats.today_total = AmountsUpTo(today, next_water_id - 1)
        /\ ({l.amount_ml : l \in today} = {300, 500} /\ Cardinality(today) = 2)
               => today_stats.today_total = 800

\* 500 and 300 were added today and are returned with total 800; an entry
\* of an earlier day is in history and is not returned
C5_Witness ==
    /\ today_stats.today_total = 800
    /\ {l.amount_ml : l \in today_stats.entries} = {300, 500}
    /\ \E l \in Range(history) : l \notin today_stats.entries

\* C6: a link request whose attachment_type is not link or whose url is
\* absent or empty answers 400 and changes nothing; a valid request on an
\* existing task adds exactly one link row with the url to that task and
\* writes no file
C6_LinkValidation ==
    [][ \A todo_id \in 1..MaxTodos, attachment \in AttachmentCreate :
            create_link_attachment_for_task(todo_id, attachment) =>
                IF \/ attachment.attachment_type # "link"
                   \/ attachment.url = None
                   \/ attachment.url = Some("")
                    THEN resp' = 400 /\ UNCHANGED db
                    ELSE todo_id \in TodoIds =>
                        /\ resp' = 201
                        /\ \E a \in attachments' :
                               /\ a \notin attachments
                               /\ attachments' = attachments \cup {a}
                               /\ a.attachment_type = "link"
                               /\ a.url = attachment.url
                               /\ a.task_id = todo_id
                        /\ files' = files ]_vars

\* a link request on an existing task was refused with 400
C6_Witness == resp = 400 /\ todos # {} /\ attachments = {}

C8_AmountPositive == \A l \in water_logs : l.amount_ml > 0

\* C9: delete_todo leaves the stored files as they are, the files of the
\* attachments of the deleted subtree included; a step that removes a file
\* is a delete_attachment
C9_DeleteTodoKeepsFiles ==
    [][ /\ \A T \in 1..MaxTodos :
            delete_todo(T) =>
                /\ files' = files
                /\ \A a \in attachments :
                       (a.task_id \in Subtree(T) /\ a.file_path # None
                            /\ Get(a.file_path) \in files)
                           => Get(a.file_path) \in files'
        /\ ~(files \subseteq files') =>
               \E attachment_id \in 1..MaxRows : delete_attachment(attachment_id) ]_vars

\* after a delete_todo the one attachment row is gone and a file is still stored
C9_Witness ==
    /\ resp = 204
    /\ next_attachment_id > 1 /\ attachments = {}
    /\ files # {}

\* C10: with requests interleaved between resolve and commit, every
\* task_id of a comment or attachment and every parent_id names a task
\* that exists
C10_ReferentialIntegrity ==
    /\ \A c \in comments : c.task_id \in TodoIds
    /\ \A a \in attachments : a.task_id \in TodoIds
    /\ \A t \in todos : t.parent_id # None => Get(t.parent_id) \in TodoIds

====
